---- MODULE Spec2Model ----
(***************************************************************************)
(* The OpenCode plugin of claude-mem (src/opencode-plugin/src/index.ts):   *)
(* one plugin instance, its two closure variables, and every hook handler  *)
(* and tool as an asynchronous task that is suspended at its await points  *)
(* (the readiness probe, the remote request, the body read) and resumed by *)
(* the answer of the remote worker service.                                *)
(*                                                                         *)
(* A JavaScript string that the code only compares or forwards is a TLA+   *)
(* string; a string the code trims and concatenates is a sequence of       *)
(* one-character strings.  An optional value (absent / undefined) is the   *)
(* empty sequence None, a present value x is the one-element sequence      *)
(* Some(x).                                                                *)
(***************************************************************************)
EXTENDS Integers, Sequences, FiniteSets, TLC

\* ---------------------------------------------------------------- bounds
MaxTasks == 2       \* hook and tool invocations the host makes on one instance
MaxOrdered == 3     \* the same where the order of dispatch is examined
MaxMsgs == 2        \* length of the messages list given to session.compacting
MaxCtxLen == 2      \* length of the text answered by context/inject
MaxDbId == 1        \* session ids the worker may assign

\* ------------------------------------------------------- optional values
None == <<>>
Some(x) == <<x>>

\* null, where the code holds `number | null`
Null == -1

\* a ?? b
Coalesce(opt, default) == IF opt = None THEN default ELSE opt[1]

\* ------------------------------------------------------------ the remote
\* What an awaited fetch() settles to: a response with a status, or a
\* rejection (network error, abort by AbortSignal.timeout) with a message.
Statuses == {200, 500}
Response(status) == [type |-> "response", status |-> status, message |-> ""]
Rejection(message) == [type |-> "throw", status |-> 0, message |-> message]

ProbeOutcomes ==
    {Response(s) : s \in Statuses} \cup {Rejection("fetch failed"), Rejection("timeout")}
FetchOutcomes ==
    {Response(s) : s \in Statuses} \cup {Rejection("fetch failed")}

\* Response.ok
ok(r) == r.status \in 200..299

\* ensureWorker(): the probe's fetch is awaited inside try; any rejection gives false.
ensureWorker(o) == IF o.type = "throw" THEN FALSE ELSE ok(o)

\* What response.json() of sessions/init settles to: an object with or without
\* sessionDbId, the JSON value null, or a rejection (the body is not JSON).
InitBodies ==
    {[type |-> "object", sessionDbId |-> Some(n)] : n \in 1..MaxDbId}
    \cup {[type |-> "object", sessionDbId |-> None],
          [type |-> "null", sessionDbId |-> None],
          [type |-> "throw", sessionDbId |-> None]}

\* What response.json() of a query endpoint settles to: a decoded value or a rejection.
Json == {"j1", "j2"}
JsonBodies ==
    {[type |-> "value", value |-> Some(j), message |-> ""] : j \in Json}
    \cup {[type |-> "throw", value |-> None, message |-> "Unexpected token"]}

\* -------------------------------------------------------------- strings
Chars == {" ", "c"}
Whitespace == {" ", "\n", "\t"}

RECURSIVE TrimStart(_)
TrimStart(s) ==
    IF s # <<>> /\ Head(s) \in Whitespace THEN TrimStart(Tail(s)) ELSE s

RECURSIVE TrimEnd(_)
TrimEnd(s) ==
    IF s # <<>> /\ s[Len(s)] \in Whitespace
    THEN TrimEnd(SubSeq(s, 1, Len(s) - 1)) ELSE s

\* mutant: the context is tested without trim()
trim_Missing(s) == s

\* String.prototype.trim
trim(s) == TrimEnd(TrimStart(s))

\* the truthiness of a string
truthy(s) == s # <<>>

SeqsUpTo(S, n) == UNION {[1..k -> S] : k \in 0..n}

\* What response.text() of context/inject settles to.
TextBodies(Contexts) ==
    {[type |-> "text", text |-> c] : c \in Contexts} \cup {[type |-> "throw", text |-> <<>>]}

\* ------------------------------------------------------------ the plugin
HookKinds == {"chat.message", "tool.execute.after",
              "experimental.chat.system.transform",
              "experimental.session.compacting"}
ToolKinds == {"mem-search", "mem-timeline", "mem-get-observations"}
Kinds == HookKinds \cup ToolKinds

VARIABLES
    sessionInitialized,   \* let sessionInitialized = false
    sessionDbId,          \* let sessionDbId: number | null = null
    tasks,                \* the invocations the host has made, in invocation order
    requests,             \* the dispatch and query requests issued, in issue order
    call                  \* the call of opencodeAdapter.normalizeInput and its result

vars == <<sessionInitialized, sessionDbId, tasks, requests, call>>

\* An invocation.  pc is the await the task is suspended at ("probe", "fetch",
\* "body") or how its promise settled ("resolved", "rejected"); messages and
\* system are the host's input.messages and output.system; ret is the value the
\* promise resolved with; params is the object a tool's execute was called
\* with; others stands for the remaining properties of the host's input and
\* output objects.  The other fields record what happened to the task:
\* given is the output.system the host passed in, probe the result of
\* ensureWorker(), fault the failure of the remote request if it failed
\* ("network", "status", "body"), received the body that was read.
NewTask(kind, messages, system, params) ==
    [kind |-> kind, pc |-> "probe", messages |-> messages, system |-> system,
     params |-> params, others |-> "others", ret |-> None,
     given |-> system, probe |-> "pending", fault |-> "none", received |-> None]

Init ==
    /\ sessionInitialized = FALSE
    /\ sessionDbId = Null
    /\ tasks = <<>>
    /\ requests = <<>>
    /\ call = None

Awaiting(t, kinds, pc) ==
    /\ t \in 1..Len(tasks)
    /\ tasks[t].kind \in kinds
    /\ tasks[t].pc = pc

\* Task t continues with the fields of `changes` assigned.
\* The plugin never calls the adapter.
Continue(t, changes) ==
    /\ tasks' = [tasks EXCEPT ![t] = changes @@ @]
    /\ UNCHANGED call

Probed(o) == IF ensureWorker(o) THEN "true" ELSE "false"
FetchFault(r) ==
    IF r.type = "throw" THEN "network" ELSE IF ~ok(r) THEN "status" ELSE "none"

\* fetch(url, ...) is called: the request leaves now.
Issue(t, endpoint, body) ==
    requests' = Append(requests,
        [task |-> t, endpoint |-> endpoint, initialized |-> sessionInitialized,
         last_assistant_message |-> body, params |-> None])

\* The same for a query: `sent` is the query string or the JSON body.
IssueQuery(t, endpoint, sent) ==
    requests' = Append(requests,
        [task |-> t, endpoint |-> endpoint, initialized |-> sessionInitialized,
         last_assistant_message |-> None, params |-> Some(sent)])

\* The host calls a hook or a tool: the handler runs up to `await ensureWorker()`.
InvokeUpTo(max, kind, messages, system, params) ==
    /\ Len(tasks) < max
    /\ tasks' = Append(tasks, NewTask(kind, messages, system, params))
    /\ UNCHANGED <<sessionInitialized, sessionDbId, requests, call>>

Invoke(kind, messages, system, params) ==
    InvokeUpTo(MaxTasks, kind, messages, system, params)

\* --------------------------------------------------------- chat.message
\* mutant: no try/catch around the init call
chatMessage_noCatch == "rejected"

\* catch (error) { console.error(...) }: the handler's promise resolves.
chatMessage_catch == "resolved"

\* mutant: `if (sessionInitialized) return` is missing
chatMessage_AfterProbe_NoInitGate(t, o) ==
    /\ Awaiting(t, {"chat.message"}, "probe")
    /\ IF ~ensureWorker(o)
       THEN /\ Continue(t, [pc |-> "resolved", probe |-> Probed(o)])
            /\ UNCHANGED requests
       ELSE /\ Continue(t, [pc |-> "fetch", probe |-> Probed(o)])
            /\ Issue(t, "sessions/init", None)
    /\ UNCHANGED <<sessionInitialized, sessionDbId>>

chatMessage_AfterProbe(t, o) ==
    /\ Awaiting(t, {"chat.message"}, "probe")
    /\ IF ~ensureWorker(o)
       THEN /\ Continue(t, [pc |-> "resolved", probe |-> Probed(o)])
            /\ UNCHANGED requests
       ELSE IF sessionInitialized
       THEN /\ Continue(t, [pc |-> "resolved", probe |-> Probed(o)])
            /\ UNCHANGED requests
       ELSE /\ Continue(t, [pc |-> "fetch", probe |-> Probed(o)])
            /\ Issue(t, "sessions/init", None)
    /\ UNCHANGED <<sessionInitialized, sessionDbId>>

chatMessage_AfterFetch(t, r) ==
    /\ Awaiting(t, {"chat.message"}, "fetch")
    /\ IF r.type = "throw"
       THEN Continue(t, [pc |-> chatMessage_catch, fault |-> FetchFault(r)])
       ELSE IF ok(r)
       THEN Continue(t, [pc |-> "body", fault |-> FetchFault(r)])   \* await response.json()
       ELSE Continue(t, [pc |-> "resolved", fault |-> FetchFault(r)])
    /\ UNCHANGED <<sessionInitialized, sessionDbId, requests>>

\* mutant: the catch block resets the flag
chatMessage_AfterJson_ClearsOnFailure(t, b) ==
    /\ Awaiting(t, {"chat.message"}, "body")
    /\ IF b.type = "object"
       THEN /\ sessionDbId' = Coalesce(b.sessionDbId, Null)
            /\ sessionInitialized' = TRUE
            /\ Continue(t, [pc |-> "resolved", received |-> Some(b)])
       ELSE /\ Continue(t, [pc |-> chatMessage_catch, fault |-> "body",
                            received |-> Some(b)])
            /\ sessionInitialized' = FALSE
            /\ UNCHANGED sessionDbId
    /\ UNCHANGED requests

\* mutant: sessionDbId is assigned, `sessionInitialized = true` is missing
chatMessage_AfterJson_IdWithoutFlag(t, b) ==
    /\ Awaiting(t, {"chat.message"}, "body")
    /\ IF b.type = "object"
       THEN /\ sessionDbId' = Coalesce(b.sessionDbId, Null)
            /\ Continue(t, [pc |-> "resolved", received |-> Some(b)])
            /\ UNCHANGED sessionInitialized
       ELSE /\ Continue(t, [pc |-> chatMessage_catch, fault |-> "body",
                            received |-> Some(b)])
            /\ UNCHANGED <<sessionInitialized, sessionDbId>>
    /\ UNCHANGED requests

chatMessage_AfterJson(t, b) ==
    /\ Awaiting(t, {"chat.message"}, "body")
    /\ IF b.type = "object"
       THEN /\ sessionDbId' = Coalesce(b.sessionDbId, Null)
            /\ sessionInitialized' = TRUE
            /\ Continue(t, [pc |-> "resolved", received |-> Some(b)])
       ELSE \* json() rejected, or result.sessionDbId threw on null
            /\ Continue(t, [pc |-> chatMessage_catch, fault |-> "body",
                            received |-> Some(b)])
            /\ UNCHANGED <<sessionInitialized, sessionDbId>>
    /\ UNCHANGED requests

\* ---------------------------------------------------- tool.execute.after
toolExecuteAfter_catch == "resolved"

\* mutant: `if (!sessionInitialized) return` is missing
toolExecuteAfter_AfterProbe_NoSessionGate(t, o) ==
    /\ Awaiting(t, {"tool.execute.after"}, "probe")
    /\ IF ~ensureWorker(o)
       THEN /\ Continue(t, [pc |-> "resolved", probe |-> Probed(o)])
            /\ UNCHANGED requests
       ELSE /\ Continue(t, [pc |-> "fetch", probe |-> Probed(o)])
            /\ Issue(t, "sessions/observations", None)
    /\ UNCHANGED <<sessionInitialized, sessionDbId>>

toolExecuteAfter_AfterProbe(t, o) ==
    /\ Awaiting(t, {"tool.execute.after"}, "probe")
    /\ IF ~ensureWorker(o)
       THEN /\ Continue(t, [pc |-> "resolved", probe |-> Probed(o)])
            /\ UNCHANGED requests
       ELSE IF ~sessionInitialized
       THEN /\ Continue(t, [pc |-> "resolved", probe |-> Probed(o)])
            /\ UNCHANGED requests
       ELSE /\ Continue(t, [pc |-> "fetch", probe |-> Probed(o)])
            /\ Issue(t, "sessions/observations", None)
    /\ UNCHANGED <<sessionInitialized, sessionDbId>>

\* mutant: the handler stores the outcome in the host's output object
toolExecuteAfter_AfterFetch_WritesOutput(t, r) ==
    /\ Awaiting(t, {"tool.execute.after"}, "fetch")
    /\ IF r.type = "throw"
       THEN Continue(t, [pc |-> toolExecuteAfter_catch, fault |-> FetchFault(r)])
       ELSE Continue(t, [pc |-> "resolved", fault |-> FetchFault(r),
                         system |-> Some(<<>>)])
    /\ UNCHANGED <<sessionInitialized, sessionDbId, requests>>

\* The response is not looked at.
toolExecuteAfter_AfterFetch(t, r) ==
    /\ Awaiting(t, {"tool.execute.after"}, "fetch")
    /\ IF r.type = "throw"
       THEN Continue(t, [pc |-> toolExecuteAfter_catch, fault |-> FetchFault(r)])
       ELSE Continue(t, [pc |-> "resolved", fault |-> FetchFault(r)])
    /\ UNCHANGED <<sessionInitialized, sessionDbId, requests>>

\* ------------------------------------ experimental.chat.system.transform
systemTransform_catch == "resolved"

systemTransform_AfterProbe(t, o) ==
    /\ Awaiting(t, {"experimental.chat.system.transform"}, "probe")
    /\ IF ~ensureWorker(o)
       THEN /\ Continue(t, [pc |-> "resolved", probe |-> Probed(o)])
            /\ UNCHANGED requests
       ELSE /\ Continue(t, [pc |-> "fetch", probe |-> Probed(o)])
            /\ Issue(t, "context/inject", None)
    /\ UNCHANGED <<sessionInitialized, sessionDbId>>

systemTransform_AfterFetch(t, r) ==
    /\ Awaiting(t, {"experimental.chat.system.transform"}, "fetch")
    /\ IF r.type = "throw"
       THEN Continue(t, [pc |-> systemTransform_catch, fault |-> FetchFault(r)])
       ELSE IF ok(r)
       THEN Continue(t, [pc |-> "body", fault |-> FetchFault(r)])   \* await response.text()
       ELSE Continue(t, [pc |-> "resolved", fault |-> FetchFault(r)])
    /\ UNCHANGED <<sessionInitialized, sessionDbId, requests>>

\* outputObj.system = (outputObj.system ?? '') + '\n\n' + context
appendContext(system, context) ==
    Some(Coalesce(system, <<>>) \o <<"\n", "\n">> \o context)

systemTransform_AfterText(t, b) ==
    /\ Awaiting(t, {"experimental.chat.system.transform"}, "body")
    /\ IF b.type = "throw"
       THEN Continue(t, [pc |-> systemTransform_catch, fault |-> "body"])
       ELSE IF truthy(trim(b.text))
       THEN Continue(t, [pc |-> "resolved", received |-> Some(b.text),
                         system |-> appendContext(tasks[t].system, b.text)])
       ELSE Continue(t, [pc |-> "resolved", received |-> Some(b.text)])
    /\ UNCHANGED <<sessionInitialized, sessionDbId, requests>>

\* -------------------------------------- experimental.session.compacting
sessionCompacting_catch == "resolved"

\* mutant: the first assistant message is taken (shift/find instead of pop)
firstAssistantMessage(messages) ==
    LET assistant == SelectSeq(messages, LAMBDA m : m.role = Some("assistant"))
    IN  IF assistant = <<>> THEN ""
        ELSE Coalesce(assistant[1].content, "")

\* messages.filter((m) => m.role === 'assistant').pop()?.content ?? ''
lastAssistantMessage(messages) ==
    LET assistant == SelectSeq(messages, LAMBDA m : m.role = Some("assistant"))
    IN  IF assistant = <<>> THEN ""
        ELSE Coalesce(assistant[Len(assistant)].content, "")

sessionCompacting_AfterProbe(t, o) ==
    /\ Awaiting(t, {"experimental.session.compacting"}, "probe")
    /\ IF ~ensureWorker(o)
       THEN /\ Continue(t, [pc |-> "resolved", probe |-> Probed(o)])
            /\ UNCHANGED requests
       ELSE IF ~sessionInitialized
       THEN /\ Continue(t, [pc |-> "resolved", probe |-> Probed(o)])
            /\ UNCHANGED requests
       ELSE /\ Continue(t, [pc |-> "fetch", probe |-> Probed(o)])
            /\ Issue(t, "sessions/summarize",
                     Some(lastAssistantMessage(Coalesce(tasks[t].messages, <<>>))))
    /\ UNCHANGED <<sessionInitialized, sessionDbId>>

\* The response is not looked at.
sessionCompacting_AfterFetch(t, r) ==
    /\ Awaiting(t, {"experimental.session.compacting"}, "fetch")
    /\ IF r.type = "throw"
       THEN Continue(t, [pc |-> sessionCompacting_catch, fault |-> FetchFault(r)])
       ELSE Continue(t, [pc |-> "resolved", fault |-> FetchFault(r)])
    /\ UNCHANGED <<sessionInitialized, sessionDbId, requests>>

\* ------------------------------------------------------------ the tools
\* mem-search, mem-timeline and mem-get-observations have the same execute body
\* up to the endpoint and the wording of the error.
endpointOf(kind) ==
    CASE kind = "mem-search" -> "search"
      [] kind = "mem-timeline" -> "timeline"
      [] kind = "mem-get-observations" -> "observations/batch"

wordOf(kind) ==
    CASE kind = "mem-search" -> "Search"
      [] kind = "mem-timeline" -> "Timeline"
      [] kind = "mem-get-observations" -> "Fetch"

\* { error: text }; a template literal is the sequence of its pieces
errorResult(text) == [error |-> Some(text), value |-> None]
\* return await response.json()
passThrough(json) == [error |-> None, value |-> Some(json)]

\* catch (error) { return { error: `Search error: ${error.message}` } }
tool_catch(kind, message) == errorResult(<<wordOf(kind), " error: ", message>>)

\* The parameters the tools declare, and what execute may be called with
\* (params: Record<string, unknown>): each key absent or present.
NoParams == [query |-> None, limit |-> None, type |-> None, ids |-> None]
ParamKeys == DOMAIN NoParams
Present(params) == {k \in ParamKeys : params[k] # None}

\* String(value)
String(key, value) == IF key = "limit" THEN ToString(value) ELSE value

\* new URLSearchParams(); searchParams.set(key, String(value)) for each entry
\* whose value is neither undefined nor null
searchParams(params) == [k \in Present(params) |-> String(k, params[k][1])]

\* JSON.stringify(params): the entries are kept as they are, undefined dropped
stringify(params) == [k \in Present(params) |-> params[k][1]]

serialized(kind, params) ==
    IF kind = "mem-get-observations" THEN stringify(params) ELSE searchParams(params)

\* The declared schema: `type` of mem-search is one of the enum, `ids` of
\* mem-get-observations is required.
parameters(kind, params) ==
    /\ kind = "mem-search" =>
          (params.type = None \/ params.type[1] \in {"observation", "summary", "session"})
    /\ kind = "mem-get-observations" => params.ids # None

\* mutant: the tool queries the worker whatever the probe said
tool_AfterProbe_NoGate(t, o) ==
    /\ Awaiting(t, ToolKinds, "probe")
    /\ Continue(t, [pc |-> "fetch", probe |-> Probed(o)])
    /\ IssueQuery(t, endpointOf(tasks[t].kind),
                  serialized(tasks[t].kind, tasks[t].params))
    /\ UNCHANGED <<sessionInitialized, sessionDbId>>

tool_AfterProbe(t, o) ==
    /\ Awaiting(t, ToolKinds, "probe")
    /\ IF ~ensureWorker(o)
       THEN /\ Continue(t, [pc |-> "resolved", probe |-> Probed(o),
                            ret |-> Some(errorResult(<<"Worker service unavailable">>))])
            /\ UNCHANGED requests
       ELSE /\ Continue(t, [pc |-> "fetch", probe |-> Probed(o)])
            /\ IssueQuery(t, endpointOf(tasks[t].kind),
                          serialized(tasks[t].kind, tasks[t].params))
    /\ UNCHANGED <<sessionInitialized, sessionDbId>>

\* mutant: `if (!response.ok)` is missing
tool_AfterFetch_NoStatusCheck(t, r) ==
    /\ Awaiting(t, ToolKinds, "fetch")
    /\ IF r.type = "throw"
       THEN Continue(t, [pc |-> "resolved", fault |-> FetchFault(r),
                         ret |-> Some(tool_catch(tasks[t].kind, r.message))])
       ELSE Continue(t, [pc |-> "body", fault |-> FetchFault(r)])
    /\ UNCHANGED <<sessionInitialized, sessionDbId, requests>>

tool_AfterFetch(t, r) ==
    /\ Awaiting(t, ToolKinds, "fetch")
    /\ IF r.type = "throw"
       THEN Continue(t, [pc |-> "resolved", fault |-> FetchFault(r),
                         ret |-> Some(tool_catch(tasks[t].kind, r.message))])
       ELSE IF ~ok(r)
       THEN Continue(t, [pc |-> "resolved", fault |-> FetchFault(r),
                         ret |-> Some(errorResult(
                             <<wordOf(tasks[t].kind), " failed: ", ToString(r.status)>>))])
       ELSE Continue(t, [pc |-> "body", fault |-> FetchFault(r)])   \* await response.json()
    /\ UNCHANGED <<sessionInitialized, sessionDbId, requests>>

\* mutant: a query through the worker drops the cached session
tool_AfterJson_ResetsSession(t, b) ==
    /\ Awaiting(t, ToolKinds, "body")
    /\ IF b.type = "throw"
       THEN Continue(t, [pc |-> "resolved", fault |-> "body",
                         ret |-> Some(tool_catch(tasks[t].kind, b.message))])
       ELSE Continue(t, [pc |-> "resolved", received |-> b.value,
                         ret |-> Some(passThrough(b.value[1]))])
    /\ sessionInitialized' = FALSE
    /\ sessionDbId' = Null
    /\ UNCHANGED requests

tool_AfterJson(t, b) ==
    /\ Awaiting(t, ToolKinds, "body")
    /\ IF b.type = "throw"
       THEN Continue(t, [pc |-> "resolved", fault |-> "body",
                         ret |-> Some(tool_catch(tasks[t].kind, b.message))])
       ELSE Continue(t, [pc |-> "resolved", received |-> b.value,
                         ret |-> Some(passThrough(b.value[1]))])
    /\ UNCHANGED <<sessionInitialized, sessionDbId, requests>>

\* ------------------------------------------------------ the environment
Message == [role : {Some("user"), Some("assistant")},
            content : {None, Some("A"), Some("B")}]

\* input.messages of session.compacting: absent, or a list
MessageLists == {None} \cup {Some(l) : l \in SeqsUpTo(Message, MaxMsgs)}
\* output.system of chat.system.transform: absent, or a string
Systems == {None, Some(<<>>), Some(<<"s">>)}
\* the text context/inject answers
Contexts == SeqsUpTo(Chars, MaxCtxLen)

\* One input of each kind, for the specifications that interleave every handler.
FewMessageLists ==
    {Some(<<[role |-> Some("assistant"), content |-> Some("A")],
            [role |-> Some("user"), content |-> Some("B")]>>)}
FewSystems == {Some(<<"s">>)}
FewContexts == {<<" ">>, <<"c">>}
FewParams ==
    [kind \in ToolKinds |->
        IF kind = "mem-get-observations"
        THEN {[NoParams EXCEPT !.ids = Some(<<1>>)]}
        ELSE {[NoParams EXCEPT !.query = Some("q")]}]

\* What execute may be called with: any of the keys absent, `type` inside or
\* outside the enum.
Params ==
    [query : {None, Some("q")}, limit : {None, Some(20)},
     type : {None, Some("observation"), Some("bogus")},
     ids : {None, Some(<<1>>)}]

TasksOf(kinds) == {t \in 1..Len(tasks) : tasks[t].kind \in kinds}
Settled(t) == tasks[t].pc \in {"resolved", "rejected"}
AllSettled == \A t \in 1..Len(tasks) : Settled(t)

\* The host invokes a hook or a tool.
InvokeChatMessage == Invoke("chat.message", None, None, NoParams)
InvokeToolExecuteAfter == Invoke("tool.execute.after", None, None, NoParams)
InvokeSystemTransform(Sys) ==
    \E sys \in Sys : Invoke("experimental.chat.system.transform", None, sys, NoParams)
InvokeSessionCompacting(Lists) ==
    \E l \in Lists : Invoke("experimental.session.compacting", l, None, NoParams)
InvokeToolWith(P) == \E k \in ToolKinds : \E p \in P[k] : Invoke(k, None, None, p)
InvokeTool == InvokeToolWith(FewParams)

\* The worker answers (or the probe's timer fires, or a body is read), and the
\* task that awaits it resumes.
ChatMessage ==
    \/ \E t \in 1..Len(tasks), o \in ProbeOutcomes : chatMessage_AfterProbe(t, o)
    \/ \E t \in 1..Len(tasks), r \in FetchOutcomes : chatMessage_AfterFetch(t, r)
    \/ \E t \in 1..Len(tasks), b \in InitBodies : chatMessage_AfterJson(t, b)

ToolExecuteAfter ==
    \/ \E t \in 1..Len(tasks), o \in ProbeOutcomes : toolExecuteAfter_AfterProbe(t, o)
    \/ \E t \in 1..Len(tasks), r \in FetchOutcomes : toolExecuteAfter_AfterFetch(t, r)

SystemTransform(Ctx) ==
    \/ \E t \in 1..Len(tasks), o \in ProbeOutcomes : systemTransform_AfterProbe(t, o)
    \/ \E t \in 1..Len(tasks), r \in FetchOutcomes : systemTransform_AfterFetch(t, r)
    \/ \E t \in 1..Len(tasks), b \in TextBodies(Ctx) : systemTransform_AfterText(t, b)

SessionCompacting ==
    \/ \E t \in 1..Len(tasks), o \in ProbeOutcomes : sessionCompacting_AfterProbe(t, o)
    \/ \E t \in 1..Len(tasks), r \in FetchOutcomes : sessionCompacting_AfterFetch(t, r)

Tool ==
    \/ \E t \in 1..Len(tasks), o \in ProbeOutcomes : tool_AfterProbe(t, o)
    \/ \E t \in 1..Len(tasks), r \in FetchOutcomes : tool_AfterFetch(t, r)
    \/ \E t \in 1..Len(tasks), b \in JsonBodies : tool_AfterJson(t, b)

Host ==
    \/ InvokeChatMessage
    \/ InvokeToolExecuteAfter
    \/ InvokeSystemTransform(FewSystems)
    \/ InvokeSessionCompacting(FewMessageLists)
    \/ InvokeTool

Resume ==
    \/ ChatMessage
    \/ ToolExecuteAfter
    \/ SystemTransform(FewContexts)
    \/ SessionCompacting
    \/ Tool

\* Any interleaving of invocations.
Next == Host \/ Resume

Spec == Init /\ [][Next]_vars

\* The host delivers the next event after the previous handler has settled.
SeqNext == (AllSettled /\ Host) \/ Resume

SeqSpec == Init /\ [][SeqNext]_vars

\* Chat messages around one system transform, over every system content and
\* every context.
TransformNext ==
    \/ InvokeChatMessage
    \/ (TasksOf({"experimental.chat.system.transform"}) = {}
          /\ InvokeSystemTransform(Systems))
    \/ ChatMessage
    \/ SystemTransform(Contexts)

TransformSpec == Init /\ [][TransformNext]_vars

\* Chat messages and, once the session is initialized, one compaction, over
\* every messages list.
CompactingNext ==
    \/ InvokeChatMessage
    \/ (sessionInitialized /\ TasksOf({"experimental.session.compacting"}) = {}
          /\ InvokeSessionCompacting(MessageLists))
    \/ ChatMessage
    \/ SessionCompacting

CompactingSpec == Init /\ [][CompactingNext]_vars

\* One call of a tool, with any parameter object, beside calls with declared
\* parameters.
AnyParams == [kind \in ToolKinds |-> Params]
ToolNext ==
    \/ InvokeTool
    \/ (tasks = <<>> /\ InvokeToolWith(AnyParams))
    \/ Tool

ToolSpec == Init /\ [][ToolNext]_vars

\* One chat message, then dispatching hooks, which may overlap.
OrderNext ==
    \/ (tasks = <<>> /\ InvokeChatMessage)
    \/ (tasks # <<>>
          /\ InvokeUpTo(MaxOrdered, "tool.execute.after", None, None, NoParams))
    \/ (tasks # <<>>
          /\ \E l \in FewMessageLists :
                InvokeUpTo(MaxOrdered, "experimental.session.compacting", l, None, NoParams))
    \/ ChatMessage
    \/ ToolExecuteAfter
    \/ SessionCompacting

OrderSpec == Init /\ [][OrderNext]_vars

\* ------------------------------------------------------ opencodeAdapter
\* A JavaScript value of a payload field: undefined or missing (None), null,
\* or a value, written as the expression that reads it.
null == "null"
Values(field) == {None, Some(null), Some(field)}

\* a ?? b
Nullish(a) == a = None \/ a = Some(null)
NullishCoalesce(a, b) == IF Nullish(a) THEN b ELSE a

\* raw: an object holding any of the fields the adapter reads, each with any
\* value, or no object at all (undefined or null).
Payloads ==
    [object : {TRUE},
     sessionId : Values("r.sessionId"), cwd : Values("r.cwd"),
     directory : Values("r.directory"), prompt : Values("r.prompt"),
     toolName : Values("r.toolName"), toolInput : Values("r.toolInput"),
     toolOutput : Values("r.toolOutput"), toolResponse : Values("r.toolResponse")]
NoObject ==
    [object |-> FALSE,
     sessionId |-> None, cwd |-> None, directory |-> None, prompt |-> None,
     toolName |-> None, toolInput |-> None, toolOutput |-> None,
     toolResponse |-> None]
Raws == Payloads \cup {NoObject}

NormalizedHookInput(r) ==
    [sessionId |-> NullishCoalesce(r.sessionId, Some("unknown")),
     cwd |-> NullishCoalesce(r.cwd, NullishCoalesce(r.directory, Some("process.cwd()"))),
     platform |-> Some("opencode"),
     prompt |-> r.prompt,
     toolName |-> r.toolName,
     toolInput |-> r.toolInput,
     toolResponse |-> NullishCoalesce(r.toolOutput, r.toolResponse),
     transcriptPath |-> None]

\* Reading a property of undefined or null throws a TypeError.
normalizeInput(raw) ==
    IF raw.object
    THEN [raised |-> FALSE, value |-> Some(NormalizedHookInput(raw))]
    ELSE [raised |-> TRUE, value |-> None]

NormalizeInput ==
    /\ call = None
    /\ \E raw \in Raws : call' = Some([raw |-> raw, result |-> normalizeInput(raw)])
    /\ UNCHANGED <<sessionInitialized, sessionDbId, tasks, requests>>

AdapterSpec == Init /\ [][NormalizeInput]_vars

\* An awaited probe is always answered: it is bounded by AbortSignal.timeout(5000).
\* A body whose response has arrived is taken to arrive as well.  The dispatch
\* and query requests have no deadline, so nothing makes the worker answer them.
ProbeAnswered ==
    \E t \in 1..Len(tasks), o \in ProbeOutcomes :
        \/ chatMessage_AfterProbe(t, o)
        \/ toolExecuteAfter_AfterProbe(t, o)
        \/ systemTransform_AfterProbe(t, o)
        \/ sessionCompacting_AfterProbe(t, o)
        \/ tool_AfterProbe(t, o)

BodyRead ==
    \/ \E t \in 1..Len(tasks), b \in InitBodies : chatMessage_AfterJson(t, b)
    \/ \E t \in 1..Len(tasks), b \in TextBodies(FewContexts) : systemTransform_AfterText(t, b)
    \/ \E t \in 1..Len(tasks), b \in JsonBodies : tool_AfterJson(t, b)

LiveSpec == Spec /\ WF_vars(ProbeAnswered) /\ WF_vars(BodyRead)

\* ---------------------------------------------------------------- claims
RequestsTo(endpoints) == {i \in 1..Len(requests) : requests[i].endpoint \in endpoints}
RequestsOf(t) == {i \in 1..Len(requests) : requests[i].task = t}
InitPosts == Cardinality(RequestsTo({"sessions/init"}))

\* C1: two chat-message events delivered in sequence result in exactly one POST
\* to sessions/init, whatever the probe and the init call return (none when the
\* probe was false both times, where the liveness gate allows no request).
\* Checked under SeqSpec.
C1_OneInitForTwoChatMessages ==
    (Len(tasks) = 2 /\ TasksOf({"chat.message"}) = {1, 2} /\ AllSettled)
        => InitPosts = (IF \A t \in {1, 2} : tasks[t].probe = "false" THEN 0 ELSE 1)

\* C2: once a chat-message event has settled without initializing the session,
\* no later step sends sessions/init and the session stays uninitialized.
\* Checked under SeqSpec.
C2_FailedInitNeverRetried ==
    [][(\E t \in TasksOf({"chat.message"}) : Settled(t) /\ ~sessionInitialized)
          => (InitPosts' = InitPosts /\ ~sessionInitialized')]_vars

\* C3: a request to sessions/observations or sessions/summarize is issued only
\* at a moment when sessionInitialized is true, and only by a tool.execute.after
\* or session.compacting handler; so such a handler that runs while the session
\* is uninitialized sends nothing.
C3_DispatchOnlyWhenInitialized ==
    /\ \A i \in RequestsTo({"sessions/observations", "sessions/summarize"}) :
          requests[i].initialized
    /\ \A t \in TasksOf({"tool.execute.after", "experimental.session.compacting"}) :
          \A i \in RequestsOf(t) :
              /\ requests[i].initialized
              /\ requests[i].endpoint =
                    (IF tasks[t].kind = "tool.execute.after"
                     THEN "sessions/observations" ELSE "sessions/summarize")

\* C3 witness: an observation was dispatched.
C3_Witness ==
    \E i \in RequestsTo({"sessions/observations"}) :
        tasks[requests[i].task].kind = "tool.execute.after"

\* C4: every request was issued by a task whose readiness probe had returned
\* true; a task whose probe returned false has resolved and sent nothing.
C4_LivenessGate ==
    /\ \A i \in 1..Len(requests) : tasks[requests[i].task].probe = "true"
    /\ \A t \in 1..Len(tasks) :
          tasks[t].probe = "false" => (tasks[t].pc = "resolved" /\ RequestsOf(t) = {})
    /\ \A t \in 1..Len(tasks) : Cardinality(RequestsOf(t)) <= 1

\* C4 witness: one invocation was stopped by the gate, another passed it.
C4_Witness ==
    /\ \E t \in 1..Len(tasks) : tasks[t].probe = "false" /\ Settled(t)
    /\ \E t \in 1..Len(tasks) : tasks[t].probe = "true" /\ RequestsOf(t) # {}

\* C5: a hook handler never rejects, and a failed probe, a failed request or an
\* unreadable body leaves it resolved.
C5_HooksNeverRaise ==
    \A t \in TasksOf(HookKinds) :
        /\ tasks[t].pc # "rejected"
        /\ (tasks[t].probe = "false" \/ tasks[t].fault # "none") => tasks[t].pc = "resolved"

\* C5 witness: a chat.message handler has resolved after a body it could not
\* decode, and another hook after a network error.
C5_Witness ==
    /\ \E t \in TasksOf({"chat.message"}) :
          tasks[t].fault = "body" /\ tasks[t].pc = "resolved"
    /\ \E t \in TasksOf(HookKinds \ {"chat.message"}) :
          tasks[t].fault = "network" /\ tasks[t].pc = "resolved"

Populated(text) == \E i \in 1..Len(text) : text[i] # ""

\* C6: a tool never rejects; it returns { error } with a populated text when the
\* probe is false, the request is rejected or answered with a non-success
\* status, or the body cannot be decoded, and the decoded body itself otherwise.
C6_ToolsReturnFailureAsData ==
    \A t \in TasksOf(ToolKinds) :
        LET k == tasks[t]
            failed == k.probe = "false" \/ k.fault # "none"
        IN  /\ k.pc # "rejected"
            /\ failed => k.pc = "resolved"
            /\ k.pc = "resolved" =>
                  /\ k.ret # None
                  /\ IF failed
                     THEN /\ k.ret[1].error # None
                          /\ Populated(k.ret[1].error[1])
                          /\ k.ret[1].value = None
                     ELSE /\ k.received # None
                          /\ k.ret[1] = [error |-> None, value |-> k.received]

\* C6 witness: one tool has returned an error for a non-success status, another
\* the decoded body.
C6_Witness ==
    /\ \E t \in TasksOf(ToolKinds) :
          tasks[t].fault = "status" /\ tasks[t].ret # None
    /\ \E t \in TasksOf(ToolKinds) :
          tasks[t].pc = "resolved" /\ tasks[t].received # None

NonBlank(s) == \E i \in 1..Len(s) : s[i] \notin Whitespace

\* C7: output.system of a system transform is what the host passed in (absent if
\* it was absent) unless a context with a non-whitespace character was read;
\* then it is the passed content, "\n\n", and the context as read.
\* Checked under TransformSpec.
C7_ContextInjectionGuard ==
    \A t \in TasksOf({"experimental.chat.system.transform"}) :
        LET k == tasks[t]
        IN  IF Settled(t) /\ k.received # None /\ NonBlank(k.received[1])
            THEN k.system = Some(Coalesce(k.given, <<>>) \o <<"\n", "\n">> \o k.received[1])
            ELSE k.system = k.given

\* C7 witness: in an uninitialized session a context with leading whitespace
\* was appended to a present system content.
C7_Witness ==
    /\ ~sessionInitialized
    /\ \E t \in TasksOf({"experimental.chat.system.transform"}) :
          /\ Settled(t)
          /\ tasks[t].given = Some(<<"s">>)
          /\ tasks[t].received = Some(<<" ", "c">>)
          /\ tasks[t].system = Some(<<"s", "\n", "\n", " ", "c">>)

AssistantAt(messages) ==
    {i \in 1..Len(messages) : messages[i].role = Some("assistant")}
Last(S) == CHOOSE i \in S : \A j \in S : j <= i
MessagesOf(i) == Coalesce(tasks[requests[i].task].messages, <<>>)

\* C8 as claimed: the last_assistant_message sent to sessions/summarize is the
\* content of the last message whose role is assistant, and "" when there is none.
\* Checked under CompactingSpec.
C8_ForwardsLastAssistantContent ==
    \A i \in RequestsTo({"sessions/summarize"}) :
        requests[i].last_assistant_message =
            IF AssistantAt(MessagesOf(i)) = {} THEN Some("")
            ELSE MessagesOf(i)[Last(AssistantAt(MessagesOf(i)))].content

\* C8 as amended: the last_assistant_message sent to sessions/summarize is the
\* content of the last message whose role is assistant, and "" when there is no
\* such message or it has no content.  Checked under CompactingSpec.
C8_ForwardsLastAssistantContentOrEmpty ==
    \A i \in RequestsTo({"sessions/summarize"}) :
        requests[i].last_assistant_message =
            IF AssistantAt(MessagesOf(i)) = {} THEN Some("")
            ELSE LET m == MessagesOf(i)[Last(AssistantAt(MessagesOf(i)))]
                 IN  IF m.content = None THEN Some("") ELSE m.content

\* C8 witness: a list of two assistant messages with different contents was
\* summarized.
C8_Witness ==
    \E i \in RequestsTo({"sessions/summarize"}) :
        /\ AssistantAt(MessagesOf(i)) = {1, 2}
        /\ MessagesOf(i)[1].content = Some("A")
        /\ MessagesOf(i)[2].content = Some("B")

\* C9: a step taken for a tool invocation (its start, or a continuation of it)
\* leaves sessionInitialized and sessionDbId as they were.
C9_ToolsLeaveSessionState ==
    [][(\E t \in 1..Len(tasks') :
            /\ tasks'[t].kind \in ToolKinds
            /\ (t > Len(tasks) \/ tasks'[t] # tasks[t]))
        => UNCHANGED <<sessionInitialized, sessionDbId>>]_vars

\* C9 witness: a tool queried the worker in an initialized session and returned,
\* and the session is still initialized with its id.
C9_Witness ==
    /\ sessionInitialized
    /\ sessionDbId # Null
    /\ \E i \in 1..Len(requests) :
          /\ requests[i].initialized
          /\ tasks[requests[i].task].kind \in ToolKinds
          /\ tasks[requests[i].task].pc = "resolved"
          /\ tasks[requests[i].task].received # None

\* C10: every invocation eventually settles.  Checked under LiveSpec.
C10_EveryInvocationSettles ==
    \A t \in 1..MaxTasks : (Len(tasks) >= t) ~> (Len(tasks) >= t /\ Settled(t))

\* C11: every request a tool sends carries parameters that satisfy the schema
\* the tool declares.  Checked under ToolSpec.
C11_ParametersValidatedBeforeSend ==
    \A i \in 1..Len(requests) :
        tasks[requests[i].task].kind \in ToolKinds =>
            parameters(tasks[requests[i].task].kind, tasks[requests[i].task].params)

\* C12: for every payload object, whichever of the recognised fields it holds,
\* normalizeInput returns: platform is 'opencode', cwd is the payload's cwd,
\* else its directory, else the process working directory, and every optional
\* field carries the payload's value or is undefined, and is never null.
\* Checked under AdapterSpec.
OptionalFields == {"prompt", "toolName", "toolInput", "toolResponse", "transcriptPath"}
PayloadValues(r, field) ==
    CASE field = "toolResponse" -> {r.toolOutput, r.toolResponse}
      [] field = "transcriptPath" -> {}
      [] OTHER -> {r[field]}
C12_NormalizeInputTotal ==
    (call # None /\ call[1].raw.object) =>
        LET r == call[1].raw
            result == call[1].result
            n == result.value[1]
        IN  /\ ~result.raised
            /\ result.value # None
            /\ n.platform = Some("opencode")
            /\ n.cwd = (IF ~Nullish(r.cwd) THEN r.cwd
                        ELSE IF ~Nullish(r.directory) THEN r.directory
                        ELSE Some("process.cwd()"))
            /\ \A f \in OptionalFields :
                  /\ n[f] \in PayloadValues(r, f) \cup {None}
                  /\ n[f] # Some(null)

\* C13: when chat.message handlers overlap, at most one of them has a
\* sessions/init request under way, and at most one of them writes
\* sessionInitialized and sessionDbId.
InitUnderWay ==
    {t \in TasksOf({"chat.message"}) : tasks[t].pc \in {"fetch", "body"}}
InitWriters ==
    {t \in TasksOf({"chat.message"}) :
        /\ tasks[t].pc = "resolved"
        /\ tasks[t].fault = "none"
        /\ tasks[t].received # None}
C13_OverlappingChatMessagesInitOnce ==
    /\ Cardinality(InitUnderWay) <= 1
    /\ Cardinality(InitWriters) <= 1

\* C15: when a chat.message handler that posted sessions/init and got an HTTP
\* success status finishes reading the body, the session is initialized and
\* sessionDbId is the body's sessionDbId, or null when the body has none,
\* whatever the body is.
C15_InitSucceedsWhateverTheBody ==
    [][\A t \in 1..Len(tasks) :
          (Awaiting(t, {"chat.message"}, "body") /\ tasks'[t].pc # "body") =>
              /\ sessionInitialized'
              /\ sessionDbId' = Coalesce(tasks'[t].received[1].sessionDbId, Null)]_vars

\* C14: two dispatches of one hook kind are issued in the order the host
\* invoked the hooks: of two sessions/observations requests, or two
\* sessions/summarize requests, the earlier one belongs to the earlier
\* invocation.  Checked under OrderSpec.
C14_DispatchInInvocationOrder ==
    \A i, j \in 1..Len(requests) :
        (/\ i < j
         /\ requests[i].endpoint = requests[j].endpoint
         /\ requests[i].endpoint \in {"sessions/observations", "sessions/summarize"})
            => requests[i].task < requests[j].task

\* C16: sessionInitialized starts false and, once true, is true in every later
\* state, whatever hooks and tools run and whatever the worker answers.
C16_InitializedIsTerminal ==
    /\ ~sessionInitialized
    /\ [][sessionInitialized => sessionInitialized']_vars

\* an initialized session on which a dispatch has failed
C16_Witness ==
    /\ sessionInitialized
    /\ \E t \in 1..Len(tasks) :
          /\ tasks[t].kind \in {"tool.execute.after", "experimental.session.compacting"}
          /\ tasks[t].fault \in {"network", "status"}

\* C17: a chat.message handler that finds sessionInitialized true after its
\* probe sends no request, leaves sessionInitialized and sessionDbId as they
\* are and resolves; no sessions/init request is ever sent from an initialized
\* session.
C17_ChatMessageNoOpWhenInitialized ==
    /\ [](\A i \in 1..Len(requests) :
            requests[i].endpoint = "sessions/init" => ~requests[i].initialized)
    /\ [][\A t \in 1..Len(tasks) :
            (/\ sessionInitialized
             /\ Awaiting(t, {"chat.message"}, "probe")
             /\ tasks'[t].pc # "probe")
                => /\ requests' = requests
                   /\ sessionInitialized' = sessionInitialized
                   /\ sessionDbId' = sessionDbId
                   /\ tasks'[t].pc = "resolved"]_vars

\* a chat message whose probe was true and which sent nothing
C17_Witness ==
    /\ sessionInitialized
    /\ \E t \in TasksOf({"chat.message"}) :
          /\ tasks[t].probe = "true"
          /\ tasks[t].pc = "resolved"
          /\ RequestsOf(t) = {}

\* C18: while sessionInitialized is false, sessionDbId is null; sessionDbId
\* changes only in the step in which a chat.message handler whose sessions/init
\* call succeeded finishes reading the body, and that step sets
\* sessionInitialized.
C18_DbIdNullUntilInitialized ==
    /\ [](~sessionInitialized => sessionDbId = Null)
    /\ [][sessionDbId' # sessionDbId =>
            /\ sessionInitialized'
            /\ \E t \in 1..Len(tasks) :
                  /\ Awaiting(t, {"chat.message"}, "body")
                  /\ tasks[t].fault = "none"
                  /\ tasks'[t].pc = "resolved"
                  /\ tasks'[t].fault = "none"]_vars

\* an id was recorded, and another init call failed
C18_Witness ==
    /\ sessionInitialized
    /\ sessionDbId # Null
    /\ \E t \in TasksOf({"chat.message"}) : tasks[t].fault # "none"

\* C19: once sessionInitialized is true, sessionDbId does not change, also
\* when chat.message handlers were under way at that moment.
C19_DbIdStableOnceInitialized ==
    [][sessionInitialized => sessionDbId' = sessionDbId]_vars

\* C20: no step of a chat.message, tool.execute.after or
\* experimental.session.compacting handler changes the host's input or output
\* object, and a step of experimental.chat.system.transform changes nothing of
\* them but output.system, whatever the worker answers.
C20_HooksLeaveHostObjects ==
    [][\A t \in 1..Len(tasks) :
          /\ tasks'[t].messages = tasks[t].messages
          /\ tasks'[t].others = tasks[t].others
          /\ tasks[t].kind # "experimental.chat.system.transform"
                => tasks'[t].system = tasks[t].system]_vars

\* a chat message whose init call was answered beside a transform that
\* appended to output.system
C20_Witness ==
    /\ \E t \in TasksOf({"chat.message"}) :
          /\ Settled(t) /\ RequestsOf(t) # {}
          /\ tasks[t].system = tasks[t].given
    /\ \E t \in TasksOf({"experimental.chat.system.transform"}) :
          Settled(t) /\ tasks[t].system # tasks[t].given
====
